---- MODULE Spec2Model ----
(***************************************************************************)
(* Model of mist/io/helpers.py: get_machine_actions, import_key and        *)
(* run_command, with the shared state they read and write (the             *)
(* EC2_PROVIDERS configuration, fabric's global env, temporary files).     *)
(***************************************************************************)
EXTENDS Integers, Sequences, FiniteSets, TLC

\* ---------------------------------------------------------------- bounds
\* Largest machine state code a provider may report; codes above UNKNOWN
\* are the unrecognized ones.
MaxStateCode == 6
\* Number of distinct temporary file paths mkstemp can hand out.
MaxFiles == 2

\* ------------------------------------------------- libcloud NodeState codes
RUNNING == 0
REBOOTING == 1
TERMINATED == 2
PENDING == 3
UNKNOWN == 4

States == 0..MaxStateCode
Recognized == {RUNNING, REBOOTING, TERMINATED, PENDING, UNKNOWN}

\* Provider types a backend / connection can have (connect() names them).
Provider == {"EC2", "LINODE"}

TmpPaths == 1..MaxFiles

\* tempfile.mkstemp: a path that does not exist yet (paths are opaque names,
\* so the least free one stands for any of them)
mkstemp(fs) == CHOOSE p \in TmpPaths \ fs : \A q \in TmpPaths \ fs : p <= q

VARIABLES
    EC2_PROVIDERS,  \* mist.io.config.EC2_PROVIDERS: the stop/start-capable types
    env,            \* fabric.api.env (global, shared by all calls)
    files,          \* temporary files that exist on disk
    op,             \* the call that returned last
    machine,        \* machine argument of the last get_machine_actions call
    backend,        \* backend / conn argument of the last call
    outcome,        \* what the provider did during the last import_key call
    ret,            \* what the last call returned
    first,          \* an earlier get_machine_actions call, kept for comparison
    created,        \* temp path the last call created with mkstemp ({} if none)
    ncalls          \* provider calls / run(command) invocations of the last call

vars == <<EC2_PROVIDERS, env, files, op, machine, backend, outcome, ret, first,
          created, ncalls>>

NoMachine == [state |-> RUNNING]
NoBackend == [type |-> "EC2"]
NoRet == [kind |-> "None"]

\* ------------------------------------------------------ get_machine_actions
Fields == {"can_start", "can_stop", "can_destroy", "can_reboot"}

\* Defaults with can_stop switched on for every provider.
Defaults_StopEverywhere(b) ==
    [can_start |-> FALSE, can_stop |-> TRUE, can_destroy |-> TRUE,
     can_reboot |-> TRUE]

\* lines 66-72: the defaults for the running state
Defaults(b) ==
    [can_start |-> FALSE,
     can_stop |-> (b.type \in EC2_PROVIDERS),
     can_destroy |-> TRUE,
     can_reboot |-> TRUE]

\* Guards whose last branch takes every code from PENDING upwards.
Guard_PendingAndAbove(i, m, b) ==
    CASE i = 1 -> m.state = REBOOTING
      [] i = 2 -> m.state = TERMINATED
      [] i = 3 -> m.state = UNKNOWN /\ b.type \in EC2_PROVIDERS
      [] i = 4 -> m.state >= PENDING

\* Guards that take every code that is not a known non-unknown one as UNKNOWN.
Guard_ElseUnknown(i, m, b) ==
    CASE i = 1 -> m.state = REBOOTING
      [] i = 2 -> m.state = TERMINATED
      [] i = 3 -> m.state \notin {RUNNING, REBOOTING, TERMINATED, PENDING}
                    /\ b.type \in EC2_PROVIDERS
      [] i = 4 -> m.state \notin {RUNNING, REBOOTING, TERMINATED}

\* The conditions of the if/elif chain, lines 75, 79, 82-83, 88, as written.
\* (`is` on the small integer state codes is identity of equal values.)
Guard(i, m, b) ==
    CASE i = 1 -> m.state = REBOOTING
      [] i = 2 -> m.state = TERMINATED
      [] i = 3 -> m.state = UNKNOWN /\ b.type \in EC2_PROVIDERS
      [] i = 4 -> m.state \in {PENDING, UNKNOWN}

\* Overrides whose TERMINATED branch leaves can_reboot alone.
Override_TerminatedReboots(i, a) ==
    CASE i = 1 -> [a EXCEPT !.can_start = FALSE, !.can_stop = FALSE,
                            !.can_reboot = FALSE]
      [] i = 2 -> [a EXCEPT !.can_stop = FALSE]
      [] i = 3 -> [a EXCEPT !.can_stop = FALSE, !.can_start = TRUE,
                            !.can_reboot = FALSE]
      [] i = 4 -> [a EXCEPT !.can_start = FALSE, !.can_destroy = FALSE,
                            !.can_stop = FALSE, !.can_reboot = FALSE]

\* Overrides whose UNKNOWN-on-EC2 branch leaves can_stop alone.
Override_UnknownKeepsStop(i, a) ==
    CASE i = 1 -> [a EXCEPT !.can_start = FALSE, !.can_stop = FALSE,
                            !.can_reboot = FALSE]
      [] i = 2 -> [a EXCEPT !.can_stop = FALSE, !.can_reboot = FALSE]
      [] i = 3 -> [a EXCEPT !.can_start = TRUE, !.can_reboot = FALSE]
      [] i = 4 -> [a EXCEPT !.can_start = FALSE, !.can_destroy = FALSE,
                            !.can_stop = FALSE, !.can_reboot = FALSE]

\* The bodies of the if/elif chain, lines 76-78, 80-81, 85-87, 89-92.
Override(i, a) ==
    CASE i = 1 -> [a EXCEPT !.can_start = FALSE, !.can_stop = FALSE,
                            !.can_reboot = FALSE]
      [] i = 2 -> [a EXCEPT !.can_stop = FALSE, !.can_reboot = FALSE]
      [] i = 3 -> [a EXCEPT !.can_stop = FALSE, !.can_start = TRUE,
                            !.can_reboot = FALSE]
      [] i = 4 -> [a EXCEPT !.can_start = FALSE, !.can_destroy = FALSE,
                            !.can_stop = FALSE, !.can_reboot = FALSE]

\* An if/elif chain over the branches in the given order: the first branch
\* whose guard holds is applied to the defaults, the others are skipped.
ElifChain(order, m, b) ==
    LET hits == SelectSeq(order, LAMBDA i : Guard(i, m, b))
    IN  IF hits = <<>> THEN Defaults(b) ELSE Override(Head(hits), Defaults(b))

\* The chain with its last two branches swapped.
CodeOrder_Swapped == <<1, 2, 4, 3>>

\* The order of the branches in the source.
CodeOrder == <<1, 2, 3, 4>>

\* The function with strict validation: an unknown state code is an error.
get_machine_actions_Strict(m, b) ==
    IF m.state \in Recognized THEN ElifChain(CodeOrder, m, b)
    ELSE [error |-> "ValueError"]

\* The function reading the stop/start capability off fabric's env (the user
\* of the last SSH session) instead of off its backend argument alone.
get_machine_actions_EnvUser(m, b) ==
    IF env.user = "ec2-user"
    THEN [ElifChain(CodeOrder, m, b) EXCEPT !.can_destroy = FALSE]
    ELSE ElifChain(CodeOrder, m, b)

get_machine_actions(m, b) == ElifChain(CodeOrder, m, b)

\* --------------------------------------------------------------- import_key
\* What conn.ex_import_keypair does: it returns, or raises an Exception whose
\* message contains 'Duplicate', or raises an Exception whose message does not.
ProviderOutcomes == {"ok", "Duplicate", "Error"}

Bool(v) == [kind |-> "bool", value |-> v]

\* import_key whose 'Duplicate' branch forgets os.remove.
import_key_DuplicateLeaks(conn, result, p, fs) ==
    IF conn.type \in EC2_PROVIDERS
    THEN LET written == fs \cup {p}
         IN  CASE result = "ok" ->
                    [ret |-> Bool(TRUE), files |-> written \ {p},
                     created |-> {p}, ncalls |-> 1]
               [] result = "Duplicate" ->
                    [ret |-> Bool(TRUE), files |-> written,
                     created |-> {p}, ncalls |-> 1]
               [] OTHER ->
                    [ret |-> Bool(FALSE), files |-> written \ {p},
                     created |-> {p}, ncalls |-> 1]
    ELSE [ret |-> Bool(FALSE), files |-> fs, created |-> {}, ncalls |-> 0]

\* lines 110-130.  conn is the connection, result what the provider does,
\* p the path mkstemp hands out, fs the files that exist before the call.
\* The result holds the return value, the files that exist afterwards, the
\* temp path created and the number of provider calls made.
import_key(conn, result, p, fs) ==
    IF conn.type \in EC2_PROVIDERS
    THEN LET written == fs \cup {p}          \* mkstemp, write, close
         IN  CASE result = "ok" ->
                    [ret |-> Bool(TRUE), files |-> written \ {p},
                     created |-> {p}, ncalls |-> 1]
               [] result = "Duplicate" ->
                    [ret |-> Bool(TRUE), files |-> written \ {p},
                     created |-> {p}, ncalls |-> 1]
               [] OTHER ->
                    [ret |-> Bool(FALSE), files |-> written \ {p},
                     created |-> {p}, ncalls |-> 1]
    ELSE [ret |-> Bool(FALSE), files |-> fs, created |-> {}, ncalls |-> 0]

\* -------------------------------------------------------------- run_command
\* Command output is a sequence of whitespace-separated words; a word may be
\* wrapped in double quotes.
W(t) == [text |-> t, quoted |-> FALSE]
Q(t) == [text |-> t, quoted |-> TRUE]

\* str.strip('"') on one word, lines 222 and 224
strip(w) == w.text

PleaseLoginAsThe == <<W("Please"), W("login"), W("as"), W("the")>>
PleaseLoginAsTheUser == <<W("Please"), W("login"), W("as"), W("the"), W("user")>>

\* `phrase in cmd_output`, lines 220 and 223, on whole words
Contains(out, phrase) ==
    \E i \in 1..Len(out) :
        /\ i + Len(phrase) - 1 <= Len(out)
        /\ SubSeq(out, i, i + Len(phrase) - 1) = phrase

\* the same for a phrase that ends in a space: a further word must follow
ContainsThenSpace(out, phrase) ==
    \E i \in 1..Len(out) :
        /\ i + Len(phrase) - 1 < Len(out)
        /\ SubSeq(out, i, i + Len(phrase) - 1) = phrase

CmdOutputs ==
    { <<W("done")>>,
      PleaseLoginAsThe,
      PleaseLoginAsThe \o <<W("ec2-user"), W("rather"), W("than"), W("the"),
                            W("user"), W("root")>>,
      PleaseLoginAsTheUser \o <<Q("ec2-user"), W("rather"), W("than"),
                                W("the"), W("user"), Q("root")>> }

\* What fabric's run(command) does: it returns output, raises an Exception,
\* or aborts with SystemExit (env.abort_on_prompts).
RunOutcomes ==
    {[kind |-> "output", out |-> o] : o \in CmdOutputs}
        \cup {[kind |-> "Exception"], [kind |-> "SystemExit"]}

\* What conn.ex_create_tags does.
TagOutcomes == {"ok", "Exception"}

Response(body, status) == [kind |-> "Response", body |-> body, status |-> status]
Str(out) == [kind |-> "str", value |-> out]

\* cmd_output.split()[k] of lines 222-224 (k counted from 0): the word, or no
\* word when the index is out of range (IndexError).
split_at(out, k) == IF k + 1 <= Len(out) THEN <<out[k + 1]>> ELSE <<>>

\* lines 222-224: the username parsed from the message, <<>> on IndexError
parse_username(out) ==
    LET u4 == split_at(out, 4)
        u5 == split_at(out, 5)
    IN  IF u4 = <<>> THEN <<>>
        ELSE IF ContainsThenSpace(out, PleaseLoginAsTheUser)
             THEN (IF u5 = <<>> THEN <<>> ELSE <<strip(u5[1])>>)
             ELSE <<strip(u4[1])>>

\* lines 193-246.  r1 and r2 are what the first and the second run(command)
\* do, tags what conn.ex_create_tags does, p the path mkstemp hands out, e
\* and fs fabric's env and the existing files before the call.
run_command(host, ssh_user, command, r1, tags, r2, p, e, fs) ==
    IF host = "" THEN
        [ret |-> Response("Host not set", 503), env |-> e, files |-> fs,
         created |-> {}, ncalls |-> 0]
    ELSE IF command = "" THEN
        [ret |-> Str(<<>>), env |-> e, files |-> fs, created |-> {}, ncalls |-> 0]
    ELSE
        LET written == fs \cup {p}           \* lines 201-204
            e1 == [e EXCEPT !.key_filename = {p},
                            !.user = IF ssh_user # "" THEN ssh_user ELSE "root"]
            failed(n, ee) ==                 \* lines 236 and 239: no os.remove
                [ret |-> Response("Exception while executing command", 503),
                 env |-> ee, files |-> written, created |-> {p}, ncalls |-> n]
            exited(n, ee) ==                 \* line 242: no os.remove
                [ret |-> Response("SystemExit", 204),
                 env |-> ee, files |-> written, created |-> {p}, ncalls |-> n]
            returned(n, ee, out) ==          \* lines 244-246
                [ret |-> Str(out), env |-> ee, files |-> written \ {p},
                 created |-> {p}, ncalls |-> n]
        IN  CASE r1.kind = "Exception" -> failed(1, e1)
              [] r1.kind = "SystemExit" -> exited(1, e1)
              [] OTHER ->
                    IF ~Contains(r1.out, PleaseLoginAsThe)
                    THEN returned(1, e1, r1.out)
                    ELSE LET username == parse_username(r1.out)
                             e2 == [e1 EXCEPT !.user = username[1]]
                         IN  IF username = <<>> THEN failed(1, e1)
                             ELSE IF tags = "Exception" THEN failed(1, e1)
                             ELSE CASE r2.kind = "Exception" -> failed(2, e2)
                                    [] r2.kind = "SystemExit" -> exited(2, e2)
                                    [] OTHER -> returned(2, e2, r2.out)

\* ------------------------------------------------------------------ actions
Init ==
    /\ EC2_PROVIDERS \in SUBSET Provider
    /\ env = [user |-> "local", key_filename |-> {}]
    /\ files = {}
    /\ op = "init"
    /\ machine = NoMachine
    /\ backend = NoBackend
    /\ outcome = "none"
    /\ ret = NoRet
    /\ first = <<>>
    /\ created = {}
    /\ ncalls = 0

\* The kept call, marked as followed by a later call.
Aged(f) == IF f = <<>> THEN f ELSE <<[f[1] EXCEPT !.later = TRUE]>>

\* A request asks for the actions of some machine of some backend.  The
\* function assigns only its locals: nothing of the shared state changes.
GetMachineActions ==
    \E s \in States, t \in Provider, keep \in BOOLEAN :
        LET m == [state |-> s]
            b == [type |-> t]
            r == get_machine_actions(m, b)
        IN  /\ op' = "get_machine_actions"
            /\ machine' = m
            /\ backend' = b
            /\ ret' = [kind |-> "actions", value |-> r]
            /\ outcome' = "none"
            /\ first' = IF keep
                        THEN <<[machine |-> m, backend |-> b, value |-> r,
                                later |-> FALSE]>>
                        ELSE Aged(first)
            /\ created' = {}
            /\ ncalls' = 0
            /\ UNCHANGED <<EC2_PROVIDERS, env, files>>

\* A request imports a public key through some connection.
ImportKey ==
    \E t \in Provider, outcome_ \in ProviderOutcomes :
        LET conn == [type |-> t]
            r == import_key(conn, outcome_, mkstemp(files), files)
        IN  /\ (t \in EC2_PROVIDERS => files # TmpPaths)
            /\ op' = "import_key"
            /\ outcome' = outcome_
            /\ ret' = r.ret
            /\ files' = r.files
            /\ created' = r.created
            /\ ncalls' = r.ncalls
            /\ machine' = NoMachine
            /\ backend' = conn
            /\ first' = Aged(first)
            /\ UNCHANGED <<EC2_PROVIDERS, env>>

Hosts == {"", "10.0.0.1"}
Users == {"", "ubuntu"}
Commands == {"", "uptime"}

\* whether run_command, given this first run, goes on to ex_create_tags
Retries(r1) ==
    /\ r1.kind = "output"
    /\ Contains(r1.out, PleaseLoginAsThe)
    /\ parse_username(r1.out) # <<>>

\* A request runs a command on a machine over SSH.  What the first run,
\* ex_create_tags and the second run do is drawn only where the code gets to
\* them.
RunCommand ==
    \E host \in Hosts, ssh_user \in Users, command \in Commands :
     \E r1 \in (IF host # "" /\ command # "" THEN RunOutcomes
                ELSE {[kind |-> "Exception"]}) :
      \E tags \in (IF Retries(r1) THEN TagOutcomes ELSE {"ok"}) :
        \E r2 \in (IF Retries(r1) /\ tags = "ok" THEN RunOutcomes ELSE {r1}) :
          LET r == run_command(host, ssh_user, command, r1, tags, r2,
                               mkstemp(files), env, files)
          IN  /\ (host # "" /\ command # "" => files # TmpPaths)
              /\ op' = "run_command"
              /\ outcome' = "none"
              /\ ret' = r.ret
              /\ env' = r.env
              /\ files' = r.files
              /\ created' = r.created
              /\ ncalls' = r.ncalls
              /\ machine' = NoMachine
              /\ backend' = NoBackend
              /\ first' = Aged(first)
              /\ UNCHANGED EC2_PROVIDERS

Next ==
    \/ GetMachineActions
    \/ ImportKey
    \/ RunCommand

Spec == Init /\ [][Next]_vars

\* ------------------------------------------------------------------- claims
supportsStopStart == backend.type \in EC2_PROVIDERS

Actions(start, stop, destroy, reboot) ==
    [can_start |-> start, can_stop |-> stop, can_destroy |-> destroy,
     can_reboot |-> reboot]

\* The table of the specification's algorithm, by state and capability flag.
SpecTable(s, sss) ==
    CASE s = RUNNING -> Actions(FALSE, sss, TRUE, TRUE)
      [] s = REBOOTING -> Actions(FALSE, FALSE, TRUE, FALSE)
      [] s = TERMINATED -> Actions(FALSE, FALSE, TRUE, FALSE)
      [] s = UNKNOWN /\ sss -> Actions(TRUE, FALSE, TRUE, FALSE)
      [] s = PENDING \/ (s = UNKNOWN /\ ~sss) -> Actions(FALSE, FALSE, FALSE, FALSE)

\* C1: for each of the five known states and both provider families,
\* get_machine_actions returns exactly the ActionSet of the specification's
\* algorithm (the seven scenarios included, PENDING all-false for both).
C1_MatchesSpecTable ==
    (op = "get_machine_actions" /\ machine.state \in Recognized)
        => ret.value = SpecTable(machine.state, supportsStopStart)

C1_Witness ==
    /\ op = "get_machine_actions"
    /\ machine.state = PENDING
    /\ supportsStopStart
    /\ ret.value = Actions(FALSE, FALSE, FALSE, FALSE)

\* C2: get_machine_actions is total: for every state code, recognized or not,
\* and every provider type it returns a result with exactly the four fields,
\* each a boolean, and no error.
C2_Total ==
    op = "get_machine_actions"
        => /\ DOMAIN ret.value = Fields
           /\ \A f \in Fields : ret.value[f] \in BOOLEAN

C2_Witness ==
    /\ op = "get_machine_actions"
    /\ machine.state \notin Recognized
    /\ DOMAIN ret.value = Fields

\* C3: for a backend whose type is not in EC2_PROVIDERS can_stop is false in
\* every machine state, known or unrecognized.
C3_CapabilityGating ==
    (op = "get_machine_actions" /\ ~supportsStopStart) => ~ret.value.can_stop

C3_Witness ==
    /\ op = "get_machine_actions"
    /\ ~supportsStopStart
    /\ machine.state = RUNNING
    /\ ~ret.value.can_stop

\* C4: a state that is none of REBOOTING, TERMINATED, PENDING, UNKNOWN (RUNNING
\* or an unrecognized code) gets the running-like defaults: can_start false,
\* can_stop = supportsStopStart, can_destroy true, can_reboot true.
C4_RunningLikeDefault ==
    (op = "get_machine_actions"
        /\ machine.state \notin {REBOOTING, TERMINATED, PENDING, UNKNOWN})
        => ret.value = Actions(FALSE, supportsStopStart, TRUE, TRUE)

C4_Witness ==
    /\ op = "get_machine_actions"
    /\ machine.state > UNKNOWN
    /\ supportsStopStart
    /\ ret.value.can_stop /\ ret.value.can_reboot

\* C5 as stated: an unrecognized state gets the same ActionSet as UNKNOWN with
\* the same provider family.
C5_Original ==
    (op = "get_machine_actions" /\ machine.state \notin Recognized)
        => ret.value = get_machine_actions([state |-> UNKNOWN], backend)

\* C5 as amended: an unrecognized state gets the same ActionSet as RUNNING with
\* the same provider family.
C5_UnrecognizedAsRunning ==
    (op = "get_machine_actions" /\ machine.state \notin Recognized)
        => ret.value = get_machine_actions([state |-> RUNNING], backend)

C5_Witness ==
    /\ op = "get_machine_actions"
    /\ machine.state \notin Recognized
    /\ ~supportsStopStart
    /\ ret.value.can_destroy
    /\ ~get_machine_actions([state |-> UNKNOWN], backend).can_destroy

\* C6, determinism: a call returns what an earlier call with the same
\* machine state and backend type returned, whatever was called in between.
C6_SameAsEarlier ==
    (op = "get_machine_actions" /\ first # <<>>
        /\ first[1].machine = machine /\ first[1].backend = backend)
        => ret.value = first[1].value

\* C6, purity: a step that is a get_machine_actions call leaves the
\* configuration, fabric's env and the files as they were.
C6_NoSideEffect ==
    op' = "get_machine_actions" => UNCHANGED <<EC2_PROVIDERS, env, files>>

Branches == 1..4
Orders == {o \in [Branches -> Branches] : \A i, j \in Branches : o[i] = o[j] => i = j}
Matching(m, b) == {i \in Branches : Guard(i, m, b)}

\* C7 as stated: at most one guard of the chain holds for any input, so every
\* order of the four branches yields the ActionSet the function returns.
C7_Original ==
    op = "get_machine_actions"
        => /\ Cardinality(Matching(machine, backend)) <= 1
           /\ \A o \in Orders : ElifChain(o, machine, backend) = ret.value

\* C7 as amended: for every input other than UNKNOWN on a stop/start-capable
\* provider at most one guard holds and every order of the branches yields the
\* returned ActionSet; for UNKNOWN on a stop/start-capable provider both the
\* third and the fourth guard hold and the function returns what the third
\* branch, which comes first in the source, gives.
C7_ExclusiveButUnknownEC2 ==
    op = "get_machine_actions"
        => IF machine.state = UNKNOWN /\ supportsStopStart
           THEN /\ Matching(machine, backend) = {3, 4}
                /\ ret.value = Override(3, Defaults(backend))
                /\ \A o \in Orders :
                      ElifChain(o, machine, backend) = ret.value
                          <=> (\E i, j \in Branches : i < j /\ o[i] = 3 /\ o[j] = 4)
           ELSE /\ Cardinality(Matching(machine, backend)) <= 1
                /\ \A o \in Orders : ElifChain(o, machine, backend) = ret.value

C7_Witness ==
    /\ op = "get_machine_actions"
    /\ machine.state = UNKNOWN
    /\ supportsStopStart
    /\ Matching(machine, backend) = {3, 4}
    /\ ElifChain(<<1, 2, 4, 3>>, machine, backend) # ret.value

\* C8: can_start is true exactly for UNKNOWN on a stop/start-capable provider
\* (so never without stop/start), and can_start and can_stop are never both
\* true.
C8_StartOnlyUnknownEC2 ==
    op = "get_machine_actions"
        => /\ ret.value.can_start <=> (machine.state = UNKNOWN /\ supportsStopStart)
           /\ ~(ret.value.can_start /\ ret.value.can_stop)

C8_Witness ==
    /\ op = "get_machine_actions"
    /\ machine.state = UNKNOWN
    /\ supportsStopStart
    /\ ret.value.can_start
    /\ ~ret.value.can_stop

\* C9: on an EC2-family connection import_key returns True when the provider
\* import succeeds or fails with 'Duplicate' and False on any other provider
\* error; on another connection it returns False with no provider call and no
\* temporary file; when it returns, the temporary file it created is gone.
C9_ImportKey ==
    op = "import_key"
        => /\ supportsStopStart
                => /\ ret = Bool(outcome \in {"ok", "Duplicate"})
                   /\ ncalls = 1
                   /\ created # {}
           /\ ~supportsStopStart
                => /\ ret = Bool(FALSE)
                   /\ ncalls = 0
                   /\ created = {}
           /\ created \cap files = {}

C9_Witness ==
    /\ op = "import_key"
    /\ supportsStopStart
    /\ outcome = "Duplicate"
    /\ ret = Bool(TRUE)
    /\ created # {}
    /\ created \cap files = {}

\* C10: whenever run_command returns after creating the temporary private-key
\* file, that file has been removed, on every path, and the command has been
\* run at most twice.
C10_TempKeyRemoved ==
    (op = "run_command" /\ created # {})
        => /\ created \cap files = {}
           /\ ncalls <= 2
====
